---- MODULE Spec2Model ----
(***************************************************************************)
(* A model of javascript/progressbar.js: one poll session started by       *)
(* requestProgress (the progress loop, the live-preview loop, the wake     *)
(* lock, the preview images and the cleanup), and the two pure helpers     *)
(* getSmartRefreshRate and formatTime.                                     *)
(*                                                                         *)
(* Every action is one callback of the browser's event loop, run to        *)
(* completion: an XHR readystatechange handler, a setTimeout callback, an  *)
(* image's onload, or the continuation of an await.                        *)
(*                                                                         *)
(* The second half models the IntelligentThumbnailLoader (part_000): the   *)
(* cards of the page, the loader's tracking sets, its intersection and     *)
(* mutation observers, its timers, and the image loads in flight.          *)
(***************************************************************************)
EXTENDS Integers, Sequences, FiniteSets, Bags

----------------------------------------------------------------------------
(* Bounds of the model. *)

\* The clock is read in ticks of inactivityTimeout seconds, up to MaxTicks
\* ticks.
MaxTicks == 2
\* Calls of funProgress / funLivePreview in one session.
MaxPolls == 3
MaxLivePolls == 3
\* Wake locks the platform grants in one session.
MaxLocks == 1
\* formatTime's inputs: 0 .. MaxFormatSecs seconds, in steps of 1/SecFrac s.
MaxFormatSecs == 7325
SecFrac == 2

\* requestProgress's default for its inactivityTimeout parameter (seconds).
inactivityTimeout == 40

\* document.title as onUiLoaded found it.
originalAppTitle == "app"

NoLock == 0

\* The thumbnail loader: the IntersectionObservers that initialize() creates,
\* and the calls of reinitialize, destroy and forceLoadAllVisible.
MaxObservers == 2
MaxCalls == 1

\* The constructor's this.maxRetries, config.retryDelay (ms) and
\* config.mutationDebounce (ms); the delay of the empty scan's retry (ms)
\* and of the source swap after a preload (ms).
maxRetries == 3
retryDelay == 1000
mutationDebounce == 1000
scanRetryDelay == 1000
swapDelay == 150

----------------------------------------------------------------------------
VARIABLES
    \* the session (closure variables of requestProgress, and the document)
    opts,            \* [prevent_screen_sleep_during_generation, show_progress_in_title]
    gallery,         \* whether a gallery element was passed
    now,             \* the last reading of the clock, in ticks since dateStart
    wasEverActive,
    divProgress,     \* TRUE: the element, FALSE: null
    barInDoc,        \* divProgress is a child of parentProgressbar
    livePreview,     \* TRUE: the container element, FALSE: null
    previewInDoc,    \* livePreview is a child of gallery
    children,        \* livePreview's child images, first child first
    documentTitle,
    atEndCalls,
    onProgressCalls,
    terminatedBy,    \* the call site of the removeProgressBar that cleaned up
    progInflight,    \* requests of the progress loop awaiting their response
    progTimers,      \* delays of the progress loop's pending setTimeouts
    progPolls,       \* calls of funProgress so far
    liveInflight,
    liveTimers,
    livePolls,
    imgLoading,      \* how many images have their src set and their load pending
    nextImg,         \* the number the next image appended to livePreview gets
    fadeTimers,      \* the oldImg of each pending 300 ms removal timer
    wakeLock,        \* NoLock (null) or a handle
    wlRequests,      \* navigator.wakeLock.request promises still pending
    wlReleasing,     \* releaseWakeLock calls suspended at their await
    held,            \* handles the platform holds (granted, release not called)
    relCalls,        \* release() calls per handle
    nextHandle,
    \* getSmartRefreshRate on its own
    rateRes, rateLoop, rateDelay,
    \* formatTime on its own
    fmtSecs, fmtText,
    \* the thumbnail loader
    cards,           \* per card: dataset.name, whether its rect is non-empty,
                     \* and how findThumbnailImages can match its images
    tl               \* the loader singleton, its timers and loads, the page

sessVars == <<opts, gallery, now, wasEverActive, divProgress, barInDoc,
              livePreview, previewInDoc, children, documentTitle, atEndCalls,
              onProgressCalls, terminatedBy, progInflight, progTimers,
              progPolls, liveInflight, liveTimers, livePolls, imgLoading,
              nextImg, fadeTimers, wakeLock, wlRequests, wlReleasing, held,
              relCalls, nextHandle>>
rateVars == <<rateRes, rateLoop, rateDelay>>
fmtVars == <<fmtSecs, fmtText>>
loaderVars == <<cards, tl>>
vars == <<sessVars, rateVars, fmtVars, loaderVars>>

----------------------------------------------------------------------------
(* Pure helpers. *)

\* getSmartRefreshRate with its first band closed at 5%.
getSmartRefreshRateClosedBand(progress, isActive) ==
    IF ~isActive \/ progress <= 50 THEN 1000
    ELSE IF progress < 200 THEN 800
    ELSE IF progress < 700 THEN 400
    ELSE IF progress < 950 THEN 250
    ELSE 200

\* Progress is a number in [0,1], held in thousandths: 50 is 0.05.
getSmartRefreshRate(progress, isActive) ==
    IF ~isActive \/ progress < 50 THEN 1000
    ELSE IF progress < 200 THEN 800
    ELSE IF progress < 700 THEN 400
    ELSE IF progress < 950 THEN 250
    ELSE 200

\* The delay funProgress hands to setTimeout (res.progress || 0 is res.progress
\* for a number).
ProgressDelay(res) == getSmartRefreshRate(res.progress, res.active)

\* The delay funLivePreview hands to setTimeout.
LivePreviewDelay(res) == getSmartRefreshRate(res.progress, res.active)

Digit(d) ==
    CASE d = 0 -> "0" [] d = 1 -> "1" [] d = 2 -> "2" [] d = 3 -> "3"
      [] d = 4 -> "4" [] d = 5 -> "5" [] d = 6 -> "6" [] d = 7 -> "7"
      [] d = 8 -> "8" [] d = 9 -> "9"

\* Number to string, as JavaScript's string concatenation converts a
\* non-negative integer: a sequence of one-character strings.
RECURSIVE NumToStr(_)
NumToStr(n) ==
    IF n < 10 THEN <<Digit(n)>> ELSE NumToStr(n \div 10) \o <<Digit(n % 10)>>

\* pad2 padding nothing.
pad2Plain(x) == NumToStr(x)

pad2(x) == IF x < 10 THEN <<"0">> \o NumToStr(x) ELSE NumToStr(x)

\* secs is held in units of 1/SecFrac second; Math.floor(secs / k) is then
\* t \div (k * SecFrac).
formatTime(t) ==
    IF t > 3600 * SecFrac
    THEN pad2(t \div (3600 * SecFrac)) \o <<":">>
         \o pad2((t \div (60 * SecFrac)) % 60) \o <<":">>
         \o pad2((t \div SecFrac) % 60)
    ELSE IF t > 60 * SecFrac
    THEN pad2(t \div (60 * SecFrac)) \o <<":">> \o pad2((t \div SecFrac) % 60)
    ELSE NumToStr(t \div SecFrac) \o <<"s">>

----------------------------------------------------------------------------
(* The poll session. *)

\* (new Date() - dateStart) / 1000, for the clock reading t (in ticks).
elapsedFromStart(t) == t * inactivityTimeout

\* Progress values the backend reports in a session (thousandths).
ResProgress == {0, 1000}

\* The body of a 200 response of ./internal/progress with live_preview: false.
ProgressResponses ==
    [completed : BOOLEAN, active : BOOLEAN, queued : BOOLEAN,
     progress : ResProgress]

\* The body of a 200 response to the live-preview request.
LivePreviewResponses ==
    [active : BOOLEAN, progress : ResProgress, live_preview : BOOLEAN]

\* The text funProgress builds for the title: the percentage when progress > 0
\* (an ETA, when the response has one, is appended to it). Only whether it is
\* empty reaches the state.
ProgressText(res) ==
    IF res.progress > 0 THEN "progress" ELSE ""

\* setTitle's value for document.title.
setTitle(progress) ==
    IF opts.show_progress_in_title /\ progress # ""
    THEN "[" \o progress \o "] " \o originalAppTitle
    ELSE originalAppTitle

\* requestWakeLock up to its await: a request to the platform unless the
\* option is off or a handle is stored.
requestWakeLock ==
    IF ~opts.prevent_screen_sleep_during_generation \/ wakeLock # NoLock
    THEN wlRequests' = wlRequests
    ELSE wlRequests' = wlRequests + 1

\* releaseWakeLock up to its await: release() is called on the stored handle.
releaseWakeLock ==
    IF ~opts.prevent_screen_sleep_during_generation \/ wakeLock = NoLock
    THEN UNCHANGED <<relCalls, held, wlReleasing>>
    ELSE /\ relCalls' = [relCalls EXCEPT ![wakeLock] = @ + 1]
         /\ held' = held \ {wakeLock}
         /\ wlReleasing' = wlReleasing + 1

\* removeProgressBar without its test of divProgress.
removeProgressBarUnguarded(site, title) ==
    /\ releaseWakeLock
    /\ documentTitle' = setTitle("")
    /\ barInDoc' = FALSE
    /\ previewInDoc' = IF gallery /\ livePreview THEN FALSE ELSE previewInDoc
    /\ atEndCalls' = atEndCalls + 1
    /\ divProgress' = FALSE
    /\ terminatedBy' = IF divProgress THEN site ELSE terminatedBy

\* removeProgressBar, called from `site` with `title` in document.title.
removeProgressBar(site, title) ==
    /\ releaseWakeLock
    /\ IF ~divProgress
       THEN /\ documentTitle' = title
            /\ UNCHANGED <<divProgress, barInDoc, previewInDoc, atEndCalls,
                           terminatedBy>>
       ELSE /\ documentTitle' = setTitle("")
            /\ barInDoc' = FALSE
            /\ previewInDoc' = IF gallery /\ livePreview THEN FALSE
                               ELSE previewInDoc
            /\ atEndCalls' = atEndCalls + 1
            /\ divProgress' = FALSE
            /\ terminatedBy' = site

\* What a handler that does not call removeProgressBar leaves alone.
NoCleanup ==
    UNCHANGED <<relCalls, held, wlReleasing, divProgress, barInDoc,
                previewInDoc, atEndCalls, terminatedBy>>

\* funProgress: the wake-lock request, then the XHR is sent.
funProgress ==
    /\ requestWakeLock
    /\ progInflight' = progInflight + 1
    /\ progPolls' = progPolls + 1

\* funLivePreview: the XHR is sent.
funLivePreview ==
    /\ liveInflight' = liveInflight + 1
    /\ livePolls' = livePolls + 1

\* ProgressHandler with the flag following the latest response only.
ProgressHandlerLastActive(res, t) ==
    IF res.completed
    THEN /\ removeProgressBar("completed", documentTitle)
         /\ UNCHANGED <<wasEverActive, onProgressCalls, progTimers>>
    ELSE LET title == setTitle(ProgressText(res))
             ever == res.active
         IN  /\ wasEverActive' = ever
             /\ IF ~res.active /\ ever
                THEN /\ removeProgressBar("dropped", title)
                     /\ UNCHANGED <<onProgressCalls, progTimers>>
                ELSE IF elapsedFromStart(t) > inactivityTimeout
                        /\ ~res.queued /\ ~res.active
                THEN /\ removeProgressBar("timeout", title)
                     /\ UNCHANGED <<onProgressCalls, progTimers>>
                ELSE /\ documentTitle' = title
                     /\ NoCleanup
                     /\ onProgressCalls' = onProgressCalls + 1
                     /\ progTimers' = Append(progTimers, ProgressDelay(res))

\* ProgressHandler timing out once inactivityTimeout is reached, not exceeded.
ProgressHandlerTimeoutReached(res, t) ==
    IF res.completed
    THEN /\ removeProgressBar("completed", documentTitle)
         /\ UNCHANGED <<wasEverActive, onProgressCalls, progTimers>>
    ELSE LET title == setTitle(ProgressText(res))
             ever == wasEverActive \/ res.active
         IN  /\ wasEverActive' = ever
             /\ IF ~res.active /\ ever
                THEN /\ removeProgressBar("dropped", title)
                     /\ UNCHANGED <<onProgressCalls, progTimers>>
                ELSE IF elapsedFromStart(t) >= inactivityTimeout
                        /\ ~res.queued /\ ~res.active
                THEN /\ removeProgressBar("timeout", title)
                     /\ UNCHANGED <<onProgressCalls, progTimers>>
                ELSE /\ documentTitle' = title
                     /\ NoCleanup
                     /\ onProgressCalls' = onProgressCalls + 1
                     /\ progTimers' = Append(progTimers, ProgressDelay(res))

\* The success handler of funProgress's request, for the response res, with
\* new Date() reading t.
ProgressHandler(res, t) ==
    IF res.completed
    THEN /\ removeProgressBar("completed", documentTitle)
         /\ UNCHANGED <<wasEverActive, onProgressCalls, progTimers>>
    ELSE LET title == setTitle(ProgressText(res))
             ever == wasEverActive \/ res.active
         IN  /\ wasEverActive' = ever
             /\ IF ~res.active /\ ever
                THEN /\ removeProgressBar("dropped", title)
                     /\ UNCHANGED <<onProgressCalls, progTimers>>
                ELSE IF elapsedFromStart(t) > inactivityTimeout
                        /\ ~res.queued /\ ~res.active
                THEN /\ removeProgressBar("timeout", title)
                     /\ UNCHANGED <<onProgressCalls, progTimers>>
                ELSE /\ documentTitle' = title
                     /\ NoCleanup
                     /\ onProgressCalls' = onProgressCalls + 1
                     /\ progTimers' = Append(progTimers, ProgressDelay(res))

\* ProgressErrorHandler polling again after the failure.
ProgressErrorHandlerRetry ==
    /\ removeProgressBar("progressError", documentTitle)
    /\ progTimers' = Append(progTimers, 1000)
    /\ UNCHANGED <<wasEverActive, onProgressCalls>>

\* The error handler of funProgress's request.
ProgressErrorHandler ==
    /\ removeProgressBar("progressError", documentTitle)
    /\ UNCHANGED <<wasEverActive, onProgressCalls, progTimers>>

\* img.onload of a preview image; img numbers the images in the order they are
\* appended.
ImgOnloadHandler(img) ==
    LET kids == Append(children, img)
    IN  /\ livePreview' = TRUE
        /\ previewInDoc' = IF ~livePreview THEN TRUE ELSE previewInDoc
        /\ children' = kids
        /\ fadeTimers' = IF Len(kids) > 2 THEN Append(fadeTimers, Head(kids))
                         ELSE fadeTimers

\* The success handler of funLivePreview's request, for the response res.
LivePreviewHandler(res) ==
    IF ~divProgress
    THEN UNCHANGED <<imgLoading, liveTimers>>
    ELSE /\ IF res.live_preview /\ gallery
            THEN imgLoading' = imgLoading + 1
            ELSE imgLoading' = imgLoading
         /\ liveTimers' = Append(liveTimers, LivePreviewDelay(res))

\* The error handler of funLivePreview's request.
LivePreviewErrorHandler ==
    removeProgressBar("livePreviewError", documentTitle)

\* seq without its k-th element.
RemoveAt(seq, k) ==
    [i \in 1..(Len(seq) - 1) |-> IF i < k THEN seq[i] ELSE seq[i + 1]]

\* seq without the element x (each image is a child once at most).
Without(seq, x) == SelectSeq(seq, LAMBDA y : y # x)

Elems(seq) == {seq[i] : i \in 1..Len(seq)}

----------------------------------------------------------------------------
(* The state after requestProgress returns: funProgress has sent its first *)
(* request, and funLivePreview its own when there is a gallery.            *)

SessionInit ==
    /\ opts \in [prevent_screen_sleep_during_generation : BOOLEAN,
                 show_progress_in_title : BOOLEAN]
    /\ gallery \in BOOLEAN
    /\ now = 0
    /\ wasEverActive = FALSE
    /\ divProgress = TRUE
    /\ barInDoc = TRUE
    /\ livePreview = FALSE
    /\ previewInDoc = FALSE
    /\ children = <<>>
    /\ documentTitle = originalAppTitle
    /\ atEndCalls = 0
    /\ onProgressCalls = 0
    /\ terminatedBy = "none"
    /\ progInflight = 1
    /\ progTimers = <<>>
    /\ progPolls = 1
    /\ liveInflight = IF gallery THEN 1 ELSE 0
    /\ liveTimers = <<>>
    /\ livePolls = IF gallery THEN 1 ELSE 0
    /\ imgLoading = 0
    /\ nextImg = 1
    /\ fadeTimers = <<>>
    /\ wakeLock = NoLock
    /\ wlRequests = IF opts.prevent_screen_sleep_during_generation THEN 1 ELSE 0
    /\ wlReleasing = 0
    /\ held = {}
    /\ relCalls = [h \in 1..MaxLocks |-> 0]
    /\ nextHandle = 1

----------------------------------------------------------------------------
(* The thumbnail loader's state.                                           *)

\* The cards of the page, in document order, and the thumbnail image that
\* a card of the extra-networks page holds.
Cards == {1, 2}
Imgs == {1}
Observers == 1..MaxObservers

\* How findThumbnailImages can match a card's images: by their container or
\* class (.preview, card-image), by their URL only, or not at all.
ThumbKinds == {"preview", "url", "none"}

\* Cards are numbered in document order; equal names are shared names, and
\* a card without dataset.name has the name every other such card has.
CardConfigs ==
    {cfg \in [Cards -> [name : Cards, sized : BOOLEAN, thumbs : ThumbKinds]] :
        \A c \in Cards :
            /\ cfg[c].name <= c
            /\ cfg[c].name = c \/ cfg[cfg[c].name].name = cfg[c].name
            /\ cfg[c].sized \/ cfg[c].thumbs = "preview"}

\* card.dataset.name || 'unnamed'
cardName(c) == cards[c].name

\* An image element as the page delivers it.
FreshImg == [src |-> "orig", originalSrc |-> "none", lazy |-> FALSE]

\* The module as loaded: no singleton yet, an empty page.  The fields of
\* the singleton hold what its constructor assigns.
LoaderStart ==
    [instance |-> FALSE,
     isInitialized |-> FALSE,
     isProcessing |-> FALSE,
     observer |-> 0,                    \* 0: null
     nObservers |-> 0,                  \* IntersectionObservers created
     watching |-> [o \in Observers |-> {}],  \* each observer's targets
     mutationObservers |-> 0,           \* MutationObservers watching a container
     mutationTimeout |-> 0,             \* the id of the last debounce timer set
                                        \* and not yet fired or cleared, or 0
     debounceTimers |-> EmptyBag,       \* the pending debounce timers: delay,
                                        \* and as id the number of cards on the
                                        \* page when the timer was set
     scanTimers |-> EmptyBag,           \* delays of the pending scan retries
     observedCards |-> {},
     loadedImages |-> {},
     loadingImages |-> {},
     retryAttempts |-> [n \in Cards |-> 0],
     loads |-> EmptyBag,                \* loadCardThumbnails calls at their await
     loadTimers |-> EmptyBag,           \* pending swap and retry timers
     docCards |-> {},
     img |-> [c \in Cards |-> [i \in Imgs |-> FreshImg]],
     indicator |-> [c \in Cards |-> FALSE],
     calls |-> 0]

LoaderIdle ==
    /\ cards = [c \in Cards |-> [name |-> c, sized |-> TRUE, thumbs |-> "preview"]]
    /\ tl = LoaderStart

RateIdle == rateRes = [active |-> FALSE, progress |-> 0] /\ rateLoop = "none"
            /\ rateDelay = 0
FmtIdle == fmtSecs = 0 /\ fmtText = <<>>

Init == SessionInit /\ RateIdle /\ FmtIdle /\ LoaderIdle

----------------------------------------------------------------------------
(* The callbacks. *)

cfgVars == <<opts, gallery>>
progVars == <<progInflight, progTimers, progPolls>>
liveVars == <<liveInflight, liveTimers, livePolls>>
imgVars == <<imgLoading, nextImg>>
boxVars == <<livePreview, children, fadeTimers>>
lockVars == <<wakeLock, wlRequests, nextHandle>>
endVars == <<relCalls, held, wlReleasing, divProgress, barInDoc, previewInDoc,
             atEndCalls, terminatedBy>>
otherVars == <<rateVars, fmtVars, loaderVars>>

\* request's onreadystatechange for the progress loop: status 200 and a body
\* that parses.
ProgressResponseWith(res, t) ==
    /\ progInflight > 0
    /\ progInflight' = progInflight - 1
    /\ now' = t
    /\ ProgressHandler(res, t)
    /\ UNCHANGED <<cfgVars, progPolls, liveVars, imgVars, boxVars,
                   lockVars, otherVars>>

ProgressResponse ==
    \E res \in ProgressResponses, t \in now..MaxTicks :
        ProgressResponseWith(res, t)

\* ... a status other than 200, or a body JSON.parse rejects.
ProgressError ==
    /\ progInflight > 0
    /\ progInflight' = progInflight - 1
    /\ ProgressErrorHandler
    /\ UNCHANGED <<cfgVars, now, progPolls, liveVars, imgVars, boxVars,
                   lockVars, otherVars>>

\* A setTimeout of the progress loop fires: funProgress runs again.
ProgressTimer ==
    /\ progPolls < MaxPolls
    /\ \E k \in 1..Len(progTimers) : progTimers' = RemoveAt(progTimers, k)
    /\ funProgress
    /\ UNCHANGED <<cfgVars, now, liveVars, imgVars, boxVars, wakeLock,
                   nextHandle, endVars, wasEverActive, documentTitle,
                   onProgressCalls, otherVars>>

\* The same for the live-preview loop.
LivePreviewResponseWith(res) ==
    /\ liveInflight > 0
    /\ liveInflight' = liveInflight - 1
    /\ LivePreviewHandler(res)
    /\ UNCHANGED <<cfgVars, now, progVars, livePolls, nextImg, boxVars, lockVars,
                   endVars, wasEverActive, documentTitle, onProgressCalls,
                   otherVars>>

LivePreviewResponse ==
    \E res \in LivePreviewResponses : LivePreviewResponseWith(res)

LivePreviewError ==
    /\ liveInflight > 0
    /\ liveInflight' = liveInflight - 1
    /\ LivePreviewErrorHandler
    /\ UNCHANGED <<cfgVars, now, progVars, liveTimers, livePolls, imgVars,
                   boxVars, lockVars, wasEverActive, onProgressCalls,
                   otherVars>>

\* A setTimeout of the live-preview loop fires: funLivePreview runs again.
LivePreviewTimer ==
    /\ livePolls < MaxLivePolls
    /\ \E k \in 1..Len(liveTimers) : liveTimers' = RemoveAt(liveTimers, k)
    /\ funLivePreview
    /\ UNCHANGED <<cfgVars, now, progVars, imgVars, boxVars, lockVars,
                   endVars, wasEverActive, documentTitle, onProgressCalls,
                   otherVars>>

\* A preview image has loaded.
ImgOnload ==
    /\ imgLoading > 0
    /\ imgLoading' = imgLoading - 1
    /\ nextImg' = nextImg + 1
    /\ ImgOnloadHandler(nextImg)
    /\ UNCHANGED <<cfgVars, now, progVars, liveVars, lockVars,
                   relCalls, held, wlReleasing, divProgress, barInDoc,
                   atEndCalls, terminatedBy, wasEverActive, documentTitle,
                   onProgressCalls, otherVars>>

\* A preview image failed to load: no onerror is set, nothing happens.
ImgError ==
    /\ imgLoading > 0
    /\ imgLoading' = imgLoading - 1
    /\ UNCHANGED <<cfgVars, now, progVars, liveVars, nextImg, boxVars,
                   lockVars, endVars, wasEverActive, documentTitle,
                   onProgressCalls, otherVars>>

\* A 300 ms removal timer fires: oldImg is removed if it still has a parent.
FadeTimer ==
    /\ \E k \in 1..Len(fadeTimers) :
          /\ fadeTimers' = RemoveAt(fadeTimers, k)
          /\ children' = IF fadeTimers[k] \in Elems(children)
                         THEN Without(children, fadeTimers[k])
                         ELSE children
    /\ UNCHANGED <<cfgVars, now, progVars, liveVars, imgVars, livePreview,
                   lockVars, endVars, wasEverActive, documentTitle,
                   onProgressCalls, otherVars>>

\* navigator.wakeLock.request resolves: the handle is stored.
WakeLockGranted ==
    /\ wlRequests > 0
    /\ nextHandle <= MaxLocks
    /\ wlRequests' = wlRequests - 1
    /\ wakeLock' = nextHandle
    /\ held' = held \cup {nextHandle}
    /\ nextHandle' = nextHandle + 1
    /\ UNCHANGED <<cfgVars, now, progVars, liveVars, imgVars, boxVars,
                   relCalls, wlReleasing, divProgress, barInDoc, previewInDoc,
                   atEndCalls, terminatedBy, wasEverActive, documentTitle,
                   onProgressCalls, otherVars>>

\* navigator.wakeLock.request rejects (or navigator.wakeLock is missing): the
\* error is logged.
WakeLockRejected ==
    /\ wlRequests > 0
    /\ wlRequests' = wlRequests - 1
    /\ UNCHANGED <<cfgVars, now, progVars, liveVars, imgVars, boxVars,
                   wakeLock, nextHandle, endVars, wasEverActive,
                   documentTitle, onProgressCalls, otherVars>>

\* release() has resolved: releaseWakeLock resumes and clears the handle.
WakeLockReleased ==
    /\ wlReleasing > 0
    /\ wlReleasing' = wlReleasing - 1
    /\ wakeLock' = NoLock
    /\ UNCHANGED <<cfgVars, now, progVars, liveVars, imgVars, boxVars,
                   wlRequests, nextHandle, relCalls, held, divProgress,
                   barInDoc, previewInDoc, atEndCalls, terminatedBy,
                   wasEverActive, documentTitle, onProgressCalls, otherVars>>

Next ==
    \/ ProgressResponse
    \/ ProgressError
    \/ ProgressTimer
    \/ LivePreviewResponse
    \/ LivePreviewError
    \/ LivePreviewTimer
    \/ ImgOnload
    \/ ImgError
    \/ FadeTimer
    \/ WakeLockGranted
    \/ WakeLockRejected
    \/ WakeLockReleased

Spec == Init /\ [][Next]_vars

----------------------------------------------------------------------------
(* getSmartRefreshRate on its own: every progress value in thousandths and *)
(* both values of the active flag, handed to the reschedule of each loop.  *)

SessionIdle ==
    /\ SessionInit
    /\ opts = [prevent_screen_sleep_during_generation |-> FALSE,
               show_progress_in_title |-> FALSE]
    /\ gallery = FALSE

RateResponses == [active : BOOLEAN, progress : 0..1000]

RateInit ==
    /\ SessionIdle
    /\ FmtIdle
    /\ LoaderIdle
    /\ rateRes \in RateResponses
    /\ rateLoop = "none"
    /\ rateDelay = 0

\* The setTimeout at the end of funProgress's success handler.
RateProgress ==
    /\ rateLoop = "none"
    /\ rateLoop' = "progress"
    /\ rateDelay' = ProgressDelay(rateRes)
    /\ UNCHANGED <<rateRes, sessVars, fmtVars, loaderVars>>

\* The setTimeout at the end of funLivePreview's success handler.
RateLivePreview ==
    /\ rateLoop = "none"
    /\ rateLoop' = "livePreview"
    /\ rateDelay' = LivePreviewDelay(rateRes)
    /\ UNCHANGED <<rateRes, sessVars, fmtVars, loaderVars>>

RateNext ==
    \/ RateProgress
    \/ RateLivePreview

SpecRate == RateInit /\ [][RateNext]_vars

----------------------------------------------------------------------------
(* formatTime on its own: every number of seconds up to MaxFormatSecs in   *)
(* steps of 1/SecFrac, and a few long durations.                           *)

FormatInputs ==
    0..(MaxFormatSecs * SecFrac)
        \cup {h * 3600 * SecFrac + 1 : h \in {10, 99, 100, 123}}

FormatInit ==
    /\ SessionIdle
    /\ RateIdle
    /\ LoaderIdle
    /\ fmtSecs \in FormatInputs
    /\ fmtText = <<>>

\* " ETA: " + formatTime(res.eta)
Format ==
    /\ fmtText = <<>>
    /\ fmtText' = formatTime(fmtSecs)
    /\ UNCHANGED <<fmtSecs, sessVars, rateVars, loaderVars>>

FormatNext == Format

SpecTime == FormatInit /\ [][FormatNext]_vars

----------------------------------------------------------------------------
(* Reading a formatted time back. *)

Digits == {"0", "1", "2", "3", "4", "5", "6", "7", "8", "9"}

DigitVal(c) == CHOOSE d \in 0..9 : Digit(d) = c

AllDigits(f) == f # <<>> /\ \A i \in 1..Len(f) : f[i] \in Digits

RECURSIVE StrToNum(_)
StrToNum(f) ==
    IF f = <<>> THEN 0
    ELSE StrToNum(SubSeq(f, 1, Len(f) - 1)) * 10 + DigitVal(f[Len(f)])

\* The fields of a text, split at its colons.
RECURSIVE SplitColon(_)
SplitColon(text) ==
    LET colons == {i \in 1..Len(text) : text[i] = ":"}
    IN  IF colons = {} THEN <<text>>
        ELSE LET i == CHOOSE c \in colons : \A d \in colons : c <= d
             IN  <<SubSeq(text, 1, i - 1)>>
                     \o SplitColon(SubSeq(text, i + 1, Len(text)))

\* A field as pad2 writes a number: its decimal digits, with one leading zero
\* when it is below 10.
TwoDigitField(f) ==
    /\ AllDigits(f)
    /\ Len(f) >= 2
    /\ (Len(f) > 2 => f[1] # "0")

\* A number as JavaScript writes it: no leading zero.
PlainNumber(f) ==
    /\ AllDigits(f)
    /\ (Len(f) > 1 => f[1] # "0")

----------------------------------------------------------------------------
(* Claims. *)

\* The table of the refresh delays, by band of progress (thousandths).
DelayTable(progress, isActive) ==
    CASE ~isActive -> 1000
      [] isActive /\ progress \in 0..49 -> 1000
      [] isActive /\ progress \in 50..199 -> 800
      [] isActive /\ progress \in 200..699 -> 400
      [] isActive /\ progress \in 700..949 -> 250
      [] isActive /\ progress \in 950..1000 -> 200

\* C9: for every progress value in [0,1] and every active flag, the delay
\* either loop hands to setTimeout is the table's: 1000 ms when inactive or
\* below 5%, 800 ms in [5%, 20%), 400 ms in [20%, 70%), 250 ms in [70%, 95%),
\* 200 ms from 95%; for an active task no smaller progress gives a smaller
\* delay.
C9_RefreshRateTable ==
    rateLoop # "none" =>
        /\ rateDelay = DelayTable(rateRes.progress, rateRes.active)
        /\ rateRes.active =>
              \A q \in 0..rateRes.progress :
                  getSmartRefreshRate(q, TRUE) >= rateDelay

\* C9's case: the live-preview loop reschedules an active task at 95%.
C9_Witness ==
    /\ rateLoop = "livePreview"
    /\ rateRes = [active |-> TRUE, progress |-> 950]
    /\ rateDelay = 200

\* The seconds a formatted text stands for.
FormatFloor == fmtSecs \div SecFrac

\* The shape of a formatted time: three colon fields above an hour, two above
\* a minute, Ns otherwise; the fields recompose to the floor of the input;
\* non-leading fields are two digits below 60; the leading field is padded
\* like them, or written plainly.
FormatShape(padded) ==
    LET fields == SplitColon(fmtText)
        val(i) == StrToNum(fields[i])
        leading(f) == IF padded THEN TwoDigitField(f) ELSE PlainNumber(f)
    IN  /\ fmtSecs > 3600 * SecFrac =>
              /\ Len(fields) = 3
              /\ leading(fields[1])
              /\ TwoDigitField(fields[2]) /\ Len(fields[2]) = 2
              /\ TwoDigitField(fields[3]) /\ Len(fields[3]) = 2
              /\ val(2) < 60 /\ val(3) < 60
              /\ val(1) * 3600 + val(2) * 60 + val(3) = FormatFloor
        /\ (fmtSecs > 60 * SecFrac /\ fmtSecs <= 3600 * SecFrac) =>
              /\ Len(fields) = 2
              /\ leading(fields[1])
              /\ TwoDigitField(fields[2]) /\ Len(fields[2]) = 2
              /\ val(2) < 60
              /\ val(1) * 60 + val(2) = FormatFloor
        /\ fmtSecs <= 60 * SecFrac =>
              /\ Len(fields) = 1
              /\ fmtText[Len(fmtText)] = "s"
              /\ PlainNumber(SubSeq(fmtText, 1, Len(fmtText) - 1))
              /\ StrToNum(SubSeq(fmtText, 1, Len(fmtText) - 1)) = FormatFloor

\* C10 as amended: formatTime writes HH:MM:SS above an hour, MM:SS above a
\* minute and Ns otherwise, the leading field zero-padded to two digits like
\* the others: formatTime(3661) = "01:01:01", formatTime(90) = "01:30",
\* formatTime(45) = "45s"; the colon fields recompose to the floor of the input
\* and every non-leading field is below 60.
C10_FormatTimePadded ==
    fmtText # <<>> =>
        /\ FormatShape(TRUE)
        /\ fmtSecs = 3661 * SecFrac =>
              fmtText = <<"0", "1", ":", "0", "1", ":", "0", "1">>
        /\ fmtSecs = 90 * SecFrac => fmtText = <<"0", "1", ":", "3", "0">>
        /\ fmtSecs = 45 * SecFrac => fmtText = <<"4", "5", "s">>

\* C10's case: 3661 seconds have been formatted.
C10_Witness ==
    /\ fmtSecs = 3661 * SecFrac
    /\ Len(fmtText) = 8

\* C10 as stated: the leading field is written without padding:
\* formatTime(3661) = "1:01:01", formatTime(90) = "1:30", formatTime(45) = "45s".
C10_FormatTimeAsStated ==
    fmtText # <<>> =>
        /\ FormatShape(FALSE)
        /\ fmtSecs = 3661 * SecFrac =>
              fmtText = <<"1", ":", "0", "1", ":", "0", "1">>
        /\ fmtSecs = 90 * SecFrac => fmtText = <<"1", ":", "3", "0">>
        /\ fmtSecs = 45 * SecFrac => fmtText = <<"4", "5", "s">>

\* A terminal condition of the progress loop's success handler: completed,
\* a drop from active, or the inactivity timeout.
TerminalResponse(res, t) ==
    \/ res.completed
    \/ ~res.active /\ wasEverActive
    \/ elapsedFromStart(t) > inactivityTimeout /\ ~res.queued /\ ~res.active

\* A callback in which a terminal condition fires.
TerminalStep ==
    \/ ProgressError
    \/ LivePreviewError
    \/ \E res \in ProgressResponses :
          TerminalResponse(res, now') /\ ProgressResponseWith(res, now')

\* C1: atEnd is never invoked more than once, and it has been invoked once
\* after every callback in which a terminal condition fires (completed, drop
\* from active, inactivity timeout, a transport error in either loop), in
\* every interleaving of the two loops.
C1_AtEndExactlyOnce ==
    /\ [](atEndCalls <= 1)
    /\ [][atEndCalls' # 1 => ~TerminalStep]_vars

\* C1's case: the live-preview loop's error ended the session, and the
\* progress loop has met its own terminal condition afterwards.
C1_Witness ==
    /\ terminatedBy = "livePreviewError"
    /\ progInflight = 0 /\ progTimers = <<>>
    /\ atEndCalls = 1

\* C2: once the session has terminated (divProgress is null), neither loop
\* issues a poll request or schedules one.
C2_NoPollAfterTermination ==
    [][~divProgress =>
          /\ progPolls' = progPolls
          /\ livePolls' = livePolls
          /\ Len(progTimers') <= Len(progTimers)
          /\ Len(liveTimers') <= Len(liveTimers)]_vars

\* C3: after the session has terminated, the progress bar and the preview
\* container are not in the document and the title is the original one.
C3_CleanAfterTermination ==
    ~divProgress =>
        /\ ~barInDoc
        /\ ~previewInDoc
        /\ documentTitle = originalAppTitle

\* Nothing of the session is pending: no request, no timer, no image load, no
\* suspended wake-lock call.
Settled ==
    /\ progInflight = 0 /\ progTimers = <<>>
    /\ liveInflight = 0 /\ liveTimers = <<>>
    /\ imgLoading = 0 /\ fadeTimers = <<>>
    /\ wlRequests = 0 /\ wlReleasing = 0

\* C4: with the wake-lock option on, release is called at most once on a
\* handle, and no handle is still held once the session has terminated and
\* everything pending has settled.
C4_ReleasedExactlyOnce ==
    opts.prevent_screen_sleep_during_generation =>
        /\ \A h \in 1..MaxLocks : relCalls[h] <= 1
        /\ (~divProgress /\ Settled) => held = {}

\* C5: a transport failure in either loop ends the session in the same
\* callback (the bar is gone and atEnd has been called; a session that was
\* still running also loses its preview container and gets its title back),
\* and the failing loop neither schedules nor issues another poll.
C5_ErrorTerminates ==
    [][/\ ProgressError =>
            /\ ~divProgress' /\ ~barInDoc' /\ atEndCalls' = 1
            /\ divProgress =>
                  ~previewInDoc' /\ documentTitle' = originalAppTitle
            /\ progTimers' = progTimers
            /\ progPolls' = progPolls
            /\ progInflight' = progInflight - 1
       /\ LivePreviewError =>
            /\ ~divProgress' /\ ~barInDoc' /\ atEndCalls' = 1
            /\ divProgress =>
                  ~previewInDoc' /\ documentTitle' = originalAppTitle
            /\ liveTimers' = liveTimers
            /\ livePolls' = livePolls
            /\ liveInflight' = liveInflight - 1]_vars

\* C5's case: the progress loop's request failed and ended the session.
C5_Witness ==
    /\ terminatedBy = "progressError"
    /\ progInflight = 0 /\ progTimers = <<>>

\* C6: the ever-active flag is never reset, and once it is set a progress
\* response with active = false, completed or not, ends the session and leaves
\* the progress loop without a new timer or request.
C6_DropFromActive ==
    [][/\ wasEverActive => wasEverActive'
       /\ (progInflight' < progInflight /\ wasEverActive) =>
             \A res \in ProgressResponses :
                 (~res.active /\ ProgressResponseWith(res, now')) =>
                     /\ ~divProgress'
                     /\ progTimers' = progTimers
                     /\ progPolls' = progPolls]_vars

\* C6's case: a task reported active, and reported inactive two polls later,
\* which ended the session.
C6_Witness ==
    /\ terminatedBy = "dropped"
    /\ wasEverActive
    /\ progPolls >= 3
    /\ progInflight = 0 /\ progTimers = <<>>

\* C7: for a session that was never active, a response that is neither
\* completed, active nor queued and is handled after more than
\* inactivityTimeout seconds ends the session by the timeout rule and
\* schedules nothing; a non-completed response handled earlier, or one that
\* reports queued or active, does not end it and schedules the next poll.
C7_InactivityTimeout ==
    [][(progInflight' < progInflight /\ ~wasEverActive) =>
          \A res \in ProgressResponses :
              (~res.completed /\ ProgressResponseWith(res, now')) =>
                  LET late == elapsedFromStart(now') > inactivityTimeout
                  IN  /\ (late /\ ~res.queued /\ ~res.active) =>
                            /\ ~divProgress'
                            /\ divProgress => terminatedBy' = "timeout"
                            /\ progTimers' = progTimers
                      /\ (~late \/ res.queued \/ res.active) =>
                            /\ divProgress' = divProgress
                            /\ terminatedBy' = terminatedBy
                            /\ Len(progTimers') = Len(progTimers) + 1]_vars

\* C7's case: a task that was never active timed out.
C7_Witness ==
    /\ terminatedBy = "timeout"
    /\ ~wasEverActive
    /\ elapsedFromStart(now) > inactivityTimeout

\* C8: the preview container never holds more than 2 images.
C8_AtMostTwoPreviews == Len(children) <= 2

\* The image a removal timer takes out is the oldest in the container.
EvictsOldest ==
    [][Len(children') < Len(children) => children' = Tail(children)]_vars


----------------------------------------------------------------------------
(* The thumbnail loader's methods, as functions from state to state.       *)

\* processCard that skips its observedCards test.
processCardUnguarded(s, c) ==
    LET thumbnailImages ==
            {i \in Imgs : \/ cards[c].thumbs = "preview"
                          \/ cards[c].thumbs = "url" /\ s.img[c][i].src = "orig"}
    IN  IF thumbnailImages = {} THEN [st |-> s, ok |-> FALSE]
        ELSE [st |-> [s EXCEPT
                        !.observedCards = @ \cup {c},
                        !.img[c] = [i \in Imgs |->
                            IF i \in thumbnailImages
                            THEN [src |-> "placeholder",
                                  originalSrc |-> IF @[i].originalSrc = "none"
                                                  THEN @[i].src
                                                  ELSE @[i].originalSrc,
                                  lazy |-> TRUE]
                            ELSE @[i]],
                        !.indicator[c] = TRUE,
                        !.watching[s.observer] = @ \cup {c}],
              ok |-> TRUE]

\* The images of a card the heuristic accepts: a source that is set, and a
\* thumbnail URL, a .preview ancestor or the card-image class.  The
\* placeholder is a data: URL that holds neither substring.
findThumbnailImages(s, c) ==
    {i \in Imgs : \/ cards[c].thumbs = "preview"
                  \/ cards[c].thumbs = "url" /\ s.img[c][i].src = "orig"}

prepareThumbnailForLazyLoading(im) ==
    [src |-> "placeholder",
     originalSrc |-> IF im.originalSrc = "none" THEN im.src ELSE im.originalSrc,
     lazy |-> TRUE]

\* addLoadingIndicator, removeLoadingIndicator: the indicator is a child of
\* the card, appended once.
addLoadingIndicator(s, c) == [s EXCEPT !.indicator[c] = TRUE]
removeLoadingIndicator(s, c) == [s EXCEPT !.indicator[c] = FALSE]

\* processCard: the new state and the value returned.
processCard(s, c) ==
    IF c \in s.observedCards THEN [st |-> s, ok |-> FALSE]
    ELSE LET thumbnailImages == findThumbnailImages(s, c)
         IN  IF thumbnailImages = {} THEN [st |-> s, ok |-> FALSE]
             ELSE LET s1 == [s EXCEPT
                                !.observedCards = @ \cup {c},
                                !.img[c] = [i \in Imgs |->
                                    IF i \in thumbnailImages
                                    THEN prepareThumbnailForLazyLoading(@[i])
                                    ELSE @[i]]]
                      s2 == addLoadingIndicator(s1, c)
                  IN  [st |-> [s2 EXCEPT !.watching[s.observer] = @ \cup {c}],
                       ok |-> TRUE]

\* newVisibleCards.forEach(card => this.processCard(card)), in document order.
RECURSIVE processCards(_, _)
processCards(s, cs) ==
    IF cs = {} THEN s
    ELSE LET c == CHOOSE x \in cs : \A y \in cs : x <= y
         IN  processCards(processCard(s, c).st, cs \ {c})

\* processAllCards that gives up on an empty page.
processAllCardsNoRetry(s) ==
    IF s.isProcessing \/ s.docCards = {} THEN s
    ELSE processCards(s, {c \in s.docCards :
                            cards[c].sized /\ c \notin s.observedCards})

\* processAllCards: isProcessing is set on entry and cleared on every way
\* out, so it is FALSE again when the call returns.
processAllCards(s) ==
    IF s.isProcessing THEN s
    ELSE IF s.docCards = {}
    THEN [s EXCEPT !.scanTimers = @ (+) SetToBag({scanRetryDelay}),
                   !.isProcessing = FALSE]
    ELSE LET newVisibleCards ==
                 {c \in s.docCards : cards[c].sized /\ c \notin s.observedCards}
         IN  [processCards(s, newVisibleCards) EXCEPT !.isProcessing = FALSE]

\* The outcome of await Promise.allSettled(loadPromises): allSettled
\* fulfils whatever the outcomes of its promises are.
allSettled(load) == "fulfilled"

\* scheduleRetry
scheduleRetry(s, c) ==
    LET retryCount == s.retryAttempts[cardName(c)]
    IN  IF retryCount < maxRetries
        THEN [s EXCEPT
                !.retryAttempts[cardName(c)] = retryCount + 1,
                !.loadTimers = @ (+) SetToBag({[kind |-> "retry", card |-> c,
                                                delay |-> retryDelay * (retryCount + 1)]})]
        ELSE removeLoadingIndicator(s, c)

\* loadCardThumbnails after its await, without its finally block.
loadCardThumbnailsResumeNoFinally(s, load) ==
    IF allSettled(load) = "fulfilled"
    THEN removeLoadingIndicator(
             [s EXCEPT !.loadedImages = @ \cup {cardName(load.card)}], load.card)
    ELSE scheduleRetry(s, load.card)

\* loadCardThumbnails after its await: the rest of the try block, or the
\* catch block, and then the finally block.
loadCardThumbnailsResume(s, load) ==
    LET c == load.card
        s1 == IF allSettled(load) = "fulfilled"
              THEN removeLoadingIndicator(
                       [s EXCEPT !.loadedImages = @ \cup {cardName(c)}], c)
              ELSE scheduleRetry(s, c)
    IN  [s1 EXCEPT !.loadingImages = @ \ {cardName(c)}]

\* reinitialize that leaves loadedImages as it is.
reinitializeKeepingLoaded(s) ==
    processAllCards([s EXCEPT !.isProcessing = FALSE,
                              !.observedCards = {},
                              !.loadingImages = {},
                              !.retryAttempts = [n \in Cards |-> 0]])

\* loadCardThumbnails up to its await.  With no image to load the await is
\* over before any other callback runs.
loadCardThumbnails(s, c) ==
    IF cardName(c) \in s.loadedImages \/ cardName(c) \in s.loadingImages THEN s
    ELSE LET s1 == [s EXCEPT !.loadingImages = @ \cup {cardName(c)}]
             lazyImages == {i \in Imgs : s.img[c][i].lazy
                                         /\ s.img[c][i].originalSrc # "none"}
             load == [card |-> c,
                      pending |-> {<<i, s.img[c][i].originalSrc>> : i \in lazyImages},
                      results |-> {}]
         IN  IF lazyImages = {} THEN loadCardThumbnailsResume(s1, load)
             ELSE [s1 EXCEPT !.loads = @ (+) SetToBag({load})]

\* A sequence of loadCardThumbnails calls, in the order of the cards.
RECURSIVE loadCards(_, _)
loadCards(s, cs) ==
    IF cs = {} THEN s
    ELSE LET c == CHOOSE x \in cs : \A y \in cs : x <= y
         IN  loadCards(loadCardThumbnails(s, c), cs \ {c})

\* The mutation callback for a batch that adds a card: the pending debounce
\* timer is cleared and a new one is set.
DebounceTimerOf(id) == [delay |-> mutationDebounce, id |-> id]

\* clearTimeout(this.mutationTimeout)
clearTimeout(s) ==
    [s EXCEPT !.debounceTimers = @ (-) SetToBag({DebounceTimerOf(s.mutationTimeout)}),
              !.mutationTimeout = 0]

\* The mutation records of one delivery: the record of an inserted card, and
\* the records of the loader's own changes between two states, an indicator
\* appended to a card or removed from it.  Attributes are not observed, so
\* a source swap makes no record.
CardInserted == {[type |-> "childList", addedNodes |-> {"card"}]}

ownMutations(pre, post) ==
    {[type |-> "childList", addedNodes |-> {"thumbnail-loading-indicator"}] :
        c \in {d \in Cards : ~pre.indicator[d] /\ post.indicator[d]}}
    \cup {[type |-> "childList", addedNodes |-> {}] :
        c \in {d \in Cards : pre.indicator[d] /\ ~post.indicator[d]}}

\* The mutation callback that sets its timer without clearing the last one.
mutationCallbackNoClear(s, mutations) ==
    LET relevantMutations ==
            {m \in mutations :
                /\ m.type = "childList"
                /\ m.addedNodes # {}
                /\ \E node \in m.addedNodes : node \in {"card", "extra-network-cards"}}
        id == Cardinality(s.docCards)
    IN  IF relevantMutations = {} THEN s
        ELSE [s EXCEPT !.debounceTimers = @ (+) SetToBag({DebounceTimerOf(id)}),
                       !.mutationTimeout = id]

\* The mutation callback: childList records that add a card, an element that
\* holds cards or a card container are relevant; if there is one, the
\* pending debounce timer is cleared and a new one is set.
mutationCallback(s, mutations) ==
    LET relevantMutations ==
            {m \in mutations :
                /\ m.type = "childList"
                /\ m.addedNodes # {}
                /\ \E node \in m.addedNodes : node \in {"card", "extra-network-cards"}}
        id == Cardinality(s.docCards)
    IN  IF relevantMutations = {} THEN s
        ELSE [clearTimeout(s) EXCEPT
                !.debounceTimers = @ (+) SetToBag({DebounceTimerOf(id)}),
                !.mutationTimeout = id]

RECURSIVE mutationCallbacks(_, _, _)
mutationCallbacks(s, n, mutations) ==
    IF n = 0 THEN s
    ELSE mutationCallbacks(mutationCallback(s, mutations), n - 1, mutations)

\* The loader's own records of a callback that took pre to post, delivered
\* to the mutation observers when the callback has returned.
deliver(pre, post) ==
    LET own == ownMutations(pre, post)
    IN  IF own = {} THEN post
        ELSE mutationCallbacks(post, pre.mutationObservers, own)

\* initialize without its isInitialized test.
initializeUnguarded(s, containers) ==
    LET s1 == [s EXCEPT !.observer = s.nObservers + 1,
                        !.nObservers = s.nObservers + 1]
        s2 == processAllCards(s1)
    IN  [s2 EXCEPT !.mutationObservers = IF containers THEN @ + 1 ELSE @,
                   !.isInitialized = TRUE]

\* initialize; containers says whether setupSelectiveMutationObserver found
\* a container to observe.
initialize(s, containers) ==
    IF s.isInitialized THEN s
    ELSE LET s1 == [s EXCEPT !.observer = s.nObservers + 1,
                             !.nObservers = s.nObservers + 1]
             s2 == processAllCards(s1)
         IN  [s2 EXCEPT !.mutationObservers = IF containers THEN @ + 1 ELSE @,
                        !.isInitialized = TRUE]

\* initializeIntelligentThumbnailLoader
initializeIntelligentThumbnailLoader(s, containers) ==
    initialize([s EXCEPT !.instance = TRUE], containers)

\* reinitialize
reinitialize(s) ==
    processAllCards([s EXCEPT !.isProcessing = FALSE,
                              !.observedCards = {},
                              !.loadedImages = {},
                              !.loadingImages = {},
                              !.retryAttempts = [n \in Cards |-> 0]])

\* destroy
destroy(s) ==
    LET s1 == IF s.observer # 0 THEN [s EXCEPT !.watching[s.observer] = {}] ELSE s
        s2 == clearTimeout(s1)
    IN  [s2 EXCEPT !.isInitialized = FALSE]

\* forceLoadAllVisible; inViewport are the observed cards whose rect meets
\* the viewport.
forceLoadAllVisible(s, inViewport) == loadCards(s, inViewport)

\* getStats: the counters and the success rate.  successRate is the text
\* of (loaded / observed * 100).toFixed(1) followed by '%', kept here as the
\* number of tenths of a percent it shows; '0%' is 0.
getStats(s) ==
    LET observed == Cardinality(s.observedCards)
        loaded == Cardinality(s.loadedImages)
    IN  [observedCards |-> observed,
         loadedImages |-> loaded,
         currentlyLoading |-> Cardinality(s.loadingImages),
         isProcessing |-> s.isProcessing,
         isInitialized |-> s.isInitialized,
         successRate |-> IF observed > 0
                         THEN (2 * 1000 * loaded + observed) \div (2 * observed)
                         ELSE 0]

\* handleIntersection for one entry.
handleIntersection(s, c, isIntersecting) ==
    IF isIntersecting
    THEN LET s1 == loadCardThumbnails(s, c)
         IN  [s1 EXCEPT !.watching[s.observer] = @ \ {c}]
    ELSE s

\* loadSingleImage's preloadImg.onload and onerror for one image of a load,
\* and, if it was the last one, the continuation of loadCardThumbnails.
imageSettled(s, load, p, ok) ==
    LET s1 == IF ok
              THEN [s EXCEPT !.loadTimers = @ (+) SetToBag({[kind |-> "swap",
                                 card |-> load.card, img |-> p[1], src |-> p[2],
                                 delay |-> swapDelay]})]
              ELSE s
        rest == [load EXCEPT !.pending = @ \ {p},
                             !.results = @ \cup {<<p[1], ok>>}]
        s2 == [s1 EXCEPT !.loads = @ (-) SetToBag({load})]
    IN  IF rest.pending = {} THEN loadCardThumbnailsResume(s2, rest)
        ELSE [s2 EXCEPT !.loads = @ (+) SetToBag({rest})]

\* The callback of a timer of the load path: the source swap 150 ms after a
\* preload, or a retry.
loadTimerCallback(s, t) ==
    IF t.kind = "swap"
    THEN [s EXCEPT !.img[t.card][t.img] = [@ EXCEPT !.src = t.src, !.lazy = FALSE]]
    ELSE loadCardThumbnails(s, t.card)


----------------------------------------------------------------------------
(* The thumbnail loader's callbacks and the calls of its API.              *)

notLoader == <<sessVars, rateVars, fmtVars>>

LoaderInit ==
    /\ SessionIdle
    /\ RateIdle
    /\ FmtIdle
    /\ cards \in CardConfigs
    /\ tl = LoaderStart

\* The page gains its next card.  Each mutation observer that watches a
\* container is called with the batch.
AddCard ==
    \E c \in Cards \ tl.docCards :
        /\ \A d \in Cards : d < c => d \in tl.docCards
        /\ tl' = mutationCallbacks([tl EXCEPT !.docCards = @ \cup {c}],
                                   tl.mutationObservers, CardInserted)
        /\ UNCHANGED <<cards, notLoader>>

\* setupIntelligentThumbnailLoading, which every run of the UI's
\* after-scripts callbacks starts, calls initializeIntelligentThumbnailLoader.
\* A page that holds a card holds its container.
Initialize ==
    /\ tl.isInitialized \/ tl.nObservers < MaxObservers
    /\ \E containers \in BOOLEAN :
        /\ tl.docCards # {} => containers
        /\ tl' = deliver(tl, initializeIntelligentThumbnailLoader(tl, containers))
    /\ UNCHANGED <<cards, notLoader>>

\* The retry of an empty scan fires.
ScanTimer ==
    \E d \in BagToSet(tl.scanTimers) :
        /\ tl' = deliver(tl, processAllCards(
                                 [tl EXCEPT !.scanTimers = @ (-) SetToBag({d})]))
        /\ UNCHANGED <<cards, notLoader>>

\* The debounce timer of the mutation callback fires.
DebounceTimer ==
    \E d \in BagToSet(tl.debounceTimers) :
        /\ tl' = deliver(tl, processAllCards([tl EXCEPT
                     !.debounceTimers = @ (-) SetToBag({d}),
                     !.mutationTimeout = IF @ = d.id THEN 0 ELSE @]))
        /\ UNCHANGED <<cards, notLoader>>

\* An intersection observer reports one of its targets.
Intersect ==
    \E o \in Observers : \E c \in tl.watching[o] : \E isIntersecting \in BOOLEAN :
        /\ tl' = deliver(tl, handleIntersection(tl, c, isIntersecting))
        /\ UNCHANGED <<cards, notLoader>>

\* A preload image of a load in flight loads or fails.
ImageSettled ==
    \E load \in BagToSet(tl.loads) : \E p \in load.pending : \E ok \in BOOLEAN :
        /\ tl' = deliver(tl, imageSettled(tl, load, p, ok))
        /\ UNCHANGED <<cards, notLoader>>

\* A timer of the load path fires.
LoadTimer ==
    \E t \in BagToSet(tl.loadTimers) :
        /\ tl' = deliver(tl, loadTimerCallback(
                                 [tl EXCEPT !.loadTimers = @ (-) SetToBag({t})], t))
        /\ UNCHANGED <<cards, notLoader>>

\* window.intelligentThumbnailLoader.forceLoad()
ForceLoad ==
    /\ tl.instance
    /\ tl.calls < MaxCalls
    /\ \E inViewport \in SUBSET tl.observedCards :
        tl' = deliver(tl, forceLoadAllVisible([tl EXCEPT !.calls = @ + 1],
                                              inViewport))
    /\ UNCHANGED <<cards, notLoader>>

\* window.intelligentThumbnailLoader.reinit()
Reinitialize ==
    /\ tl.instance
    /\ tl.calls < MaxCalls
    /\ tl' = deliver(tl, reinitialize([tl EXCEPT !.calls = @ + 1]))
    /\ UNCHANGED <<cards, notLoader>>

\* window.intelligentThumbnailLoader.getInstance().destroy()
Destroy ==
    /\ tl.instance
    /\ tl.calls < MaxCalls
    /\ tl' = deliver(tl, destroy([tl EXCEPT !.calls = @ + 1]))
    /\ UNCHANGED <<cards, notLoader>>

LoaderNext ==
    \/ AddCard
    \/ Initialize
    \/ ScanTimer
    \/ DebounceTimer
    \/ Intersect
    \/ ImageSettled
    \/ LoadTimer
    \/ ForceLoad
    \/ Reinitialize
    \/ Destroy

SpecLoader == LoaderInit /\ [][LoaderNext]_vars

\* Every timer the browser holds fires at last.
SpecLoaderFair ==
    /\ LoaderInit
    /\ [][LoaderNext]_vars
    /\ WF_vars(ScanTimer)
    /\ WF_vars(DebounceTimer)


----------------------------------------------------------------------------
(* Claims about the thumbnail loader.                                      *)

\* The last pending image of a load fails, after every other image of the
\* load has failed.
LastImageFails(load, p) ==
    /\ load.pending = {p}
    /\ \A r \in load.results : ~r[2]
    /\ tl' = imageSettled(tl, load, p, FALSE)

RetryTimers(s, c) == {t \in BagToSet(s.loadTimers) : t.kind = "retry" /\ t.card = c}

\* C11: when every image of a card's load has failed, the card is not marked
\* loaded; a retry is scheduled while the card has retries left, and a card
\* without retries left loses its indicator and gets no further timer.
C11_TotalFailureRetried ==
    [][\A load \in BagToSet(tl.loads) : \A p \in load.pending :
        (LastImageFails(load, p) /\ cardName(load.card) \notin tl.loadedImages)
        => /\ cardName(load.card) \notin tl'.loadedImages
           /\ IF tl.retryAttempts[cardName(load.card)] < maxRetries
              THEN RetryTimers(tl', load.card) # {}
              ELSE ~tl'.indicator[load.card] /\ RetryTimers(tl', load.card) = {}]_vars

\* C12: the retry count of a card never exceeds maxRetries; the n-th total
\* failure of a card (n <= maxRetries) records retry count n and schedules
\* retry attempt n after retryDelay * n ms; a failure after maxRetries
\* retries schedules no further attempt.
C12_LinearBackoff ==
    /\ [](\A n \in Cards : tl.retryAttempts[n] <= maxRetries)
    /\ [](\A c \in Cards : \A t \in RetryTimers(tl, c) :
            t.delay \in {retryDelay * n : n \in 1..maxRetries})
    /\ [][\A load \in BagToSet(tl.loads) : \A p \in load.pending :
            LastImageFails(load, p)
            => LET n == tl.retryAttempts[cardName(load.card)] + 1
               IN  IF n <= maxRetries
                   THEN /\ tl'.retryAttempts[cardName(load.card)] = n
                        /\ BagIn([kind |-> "retry", card |-> load.card,
                                  delay |-> retryDelay * n], tl'.loadTimers)
                   ELSE RetryTimers(tl', load.card) = RetryTimers(tl, load.card)]_vars


\* A step that is a scan started by a timer.
TimerScan ==
    \/ \E d \in BagToSet(tl.scanTimers) :
         tl' = processAllCards([tl EXCEPT !.scanTimers = @ (-) SetToBag({d})])
    \/ \E d \in BagToSet(tl.debounceTimers) :
         tl' = processAllCards([tl EXCEPT
                  !.debounceTimers = @ (-) SetToBag({d}),
                  !.mutationTimeout = IF @ = d.id THEN 0 ELSE @])

\* What registration gives a card: its tracked entry, its observations, its
\* images and its indicator.
Registration(s, c) ==
    <<c \in s.observedCards, {o \in Observers : c \in s.watching[o]},
      s.img[c], s.indicator[c]>>

\* C13: processCard called on a card and then again on the same card returns
\* false the second time and changes nothing; a scan leaves every tracked
\* card's registration as it was; no image ever remembers the placeholder as
\* its original source.
C13_RegisterIdempotent ==
    /\ [](\A c \in tl.docCards :
            tl.observer # 0 =>
                LET first == processCard(tl, c)
                    second == processCard(first.st, c)
                IN  /\ c \in tl.observedCards => ~first.ok /\ first.st = tl
                    /\ first.ok => c \in first.st.observedCards
                    /\ c \in first.st.observedCards =>
                          ~second.ok /\ second.st = first.st
                    /\ \A i \in Imgs : first.st.img[c][i].originalSrc # "placeholder")
    /\ [][TimerScan => \A c \in tl.observedCards :
                          Registration(tl', c) = Registration(tl, c)]_vars

\* A card registered a second time: its load from before a reinitialize is
\* still in flight, and it is tracked, prepared and observed again with its
\* original source remembered.
C13_Witness ==
    \E c \in tl.observedCards :
        /\ c \in tl.watching[tl.observer]
        /\ \E load \in BagToSet(tl.loads) : load.card = c
        /\ cardName(c) \notin tl.loadingImages
        /\ \A i \in Imgs : tl.img[c][i] = [src |-> "placeholder",
                                           originalSrc |-> "orig", lazy |-> TRUE]


\* C14: initializeIntelligentThumbnailLoader on an initialized loader changes
\* nothing; an intersection or mutation observer is created only by the
\* initialize of an uninitialized loader, one of each at most, and the
\* intersection observer of an initialized loader is the last one created.
C14_InitializeIdempotent ==
    /\ [](tl.isInitialized =>
            /\ \A containers \in BOOLEAN :
                 initializeIntelligentThumbnailLoader(tl, containers) = tl
            /\ tl.instance
            /\ tl.observer # 0
            /\ tl.observer = tl.nObservers)
    /\ [][(tl'.nObservers # tl.nObservers
             \/ tl'.mutationObservers # tl.mutationObservers
             \/ tl'.observer # tl.observer)
          => /\ ~tl.isInitialized
             /\ tl'.isInitialized
             /\ tl'.nObservers = tl.nObservers + 1
             /\ tl'.observer = tl'.nObservers
             /\ tl'.mutationObservers \in {tl.mutationObservers,
                                           tl.mutationObservers + 1}]_vars

\* An initialized loader that tracks a card, has a load in flight, and could
\* be given another observer.
C14_Witness ==
    /\ tl.isInitialized
    /\ tl.nObservers < MaxObservers
    /\ tl.observedCards # {}
    /\ tl.watching[tl.observer] # {}
    /\ tl.loads # EmptyBag


\* The cards processAllCards registers when it runs in state s: non-empty
\* rect, at least one thumbnail image.
Registrable(s) ==
    {c \in s.docCards : cards[c].sized /\ findThumbnailImages(s, c) # {}}

\* C15: a scan of an empty page changes nothing but to add one retry timer of
\* scanRetryDelay ms, so a retry is pending for as long as the page is empty;
\* a retry timer goes away only by firing; the scan a timer starts on a page
\* with cards registers every card with a non-empty rect and a thumbnail;
\* and once cards are on the page while a retry is pending, a state follows
\* in which every such card is tracked.
C15_EmptyScanRetried ==
    /\ [](tl.docCards = {} =>
            /\ processAllCards(tl) =
                 [tl EXCEPT !.scanTimers = @ (+) SetToBag({scanRetryDelay})]
            /\ tl.instance => tl.scanTimers # EmptyBag)
    /\ [](BagToSet(tl.scanTimers) \subseteq {scanRetryDelay})
    /\ [][/\ BagCardinality(tl'.scanTimers) < BagCardinality(tl.scanTimers) => TimerScan
          /\ (TimerScan /\ tl.docCards # {}) => Registrable(tl) \subseteq tl'.observedCards]_vars
    /\ (tl.scanTimers # EmptyBag /\ tl.docCards # {})
          ~> (Registrable(tl) \subseteq tl.observedCards)

\* A retry of an empty scan is pending, the page has since gained a card that
\* can be registered, and no mutation observer watches the page.
C15_Witness ==
    /\ tl.scanTimers # EmptyBag
    /\ tl.mutationObservers = 0
    /\ \E c \in Registrable(tl) : c \notin tl.observedCards


\* C16: a reinitialize call leaves loadedImages and loadingImages empty and
\* every retry count 0, runs one scan (which on an empty page sets one retry
\* timer), leaves tracked exactly the cards on the page with a non-empty
\* rect and a thumbnail, and leaves the intersection observer, the mutation
\* observers and isInitialized as they were.
C16_ReinitializeFrame ==
    [][(tl'.calls # tl.calls /\ tl' = reinitialize([tl EXCEPT !.calls = @ + 1]))
       => /\ tl'.loadedImages = {}
          /\ tl'.loadingImages = {}
          /\ \A n \in Cards : tl'.retryAttempts[n] = 0
          /\ tl'.observedCards = Registrable(tl)
          /\ tl'.observedCards \subseteq tl'.watching[tl.observer]
          /\ tl'.scanTimers = IF tl.docCards = {}
                              THEN tl.scanTimers (+) SetToBag({scanRetryDelay})
                              ELSE tl.scanTimers
          /\ ~tl'.isProcessing
          /\ tl'.observer = tl.observer
          /\ tl'.nObservers = tl.nObservers
          /\ tl'.mutationObservers = tl.mutationObservers
          /\ tl'.isInitialized = tl.isInitialized
          /\ tl'.loads = tl.loads
          /\ tl'.loadTimers = tl.loadTimers]_vars

\* After a reinitialize: a card whose load had succeeded (its source swap is
\* still pending) is no longer marked loaded and is tracked and observed
\* again.
C16_Witness ==
    \E c \in tl.observedCards :
        /\ c \in tl.watching[tl.observer]
        /\ tl.loadedImages = {}
        /\ tl.loadingImages = {}
        /\ \E t \in BagToSet(tl.loadTimers) : t.kind = "swap" /\ t.card = c


\* An intersection entry starts a load.
IntersectionStartsLoad ==
    \E o \in Observers : \E c \in tl.watching[o] :
        /\ tl' = handleIntersection(tl, c, TRUE)
        /\ cardName(c) \notin tl.loadedImages \cup tl.loadingImages

\* C17: a destroy call leaves no card observed by the loader's intersection
\* observer, no debounce timer pending and isInitialized false, and leaves
\* observedCards, loadedImages, loadingImages and retryAttempts as they were;
\* from then on, until the loader is initialized again, no intersection
\* entry starts a load.
C17_DestroyFrame ==
    /\ [][(tl'.calls # tl.calls /\ tl' = destroy([tl EXCEPT !.calls = @ + 1]))
          => /\ tl'.watching[tl.observer] = {}
             /\ tl'.debounceTimers = EmptyBag
             /\ ~tl'.isInitialized
             /\ tl'.observedCards = tl.observedCards
             /\ tl'.loadedImages = tl.loadedImages
             /\ tl'.loadingImages = tl.loadingImages
             /\ tl'.retryAttempts = tl.retryAttempts]_vars
    /\ [][(tl.instance /\ ~tl.isInitialized) => ~IntersectionStartsLoad]_vars


\* The loads of card c at their await.
LoadsOf(s, c) == {load \in BagToSet(s.loads) : load.card = c}

\* C20: no card has two loads in flight, and a load starts only for a card
\* whose name is in neither loadedImages nor loadingImages.
C20_SingleFlight ==
    /\ [](\A c \in Cards :
            /\ Cardinality(LoadsOf(tl, c)) <= 1
            /\ \A load \in LoadsOf(tl, c) : CopiesIn(load, tl.loads) = 1)
    /\ [][\A load \in BagToSet(tl'.loads) :
            (load.results = {} /\ CopiesIn(load, tl'.loads) > CopiesIn(load, tl.loads))
            => cardName(load.card) \notin tl.loadedImages \cup tl.loadingImages]_vars


----------------------------------------------------------------------------
(* Claims about the two poll loops and the wake lock.                      *)

\* C18: each loop has at most one request in flight or timer pending; a
\* loop's timer is set only by the success handler of its request (which
\* takes the request out of flight; the progress loop's calls onProgress,
\* the live-preview loop's runs only while the bar is on the page), and a
\* request is sent only by the loop's timer firing.
C18_PerLoopNonOverlap ==
    /\ [](/\ progInflight + Len(progTimers) <= 1
          /\ liveInflight + Len(liveTimers) <= 1)
    /\ [][/\ Len(progTimers') > Len(progTimers)
             => /\ progInflight' = progInflight - 1
                /\ onProgressCalls' = onProgressCalls + 1
                /\ Len(progTimers') = Len(progTimers) + 1
          /\ Len(liveTimers') > Len(liveTimers)
             => /\ liveInflight' = liveInflight - 1
                /\ divProgress /\ divProgress'
                /\ Len(liveTimers') = Len(liveTimers) + 1
          /\ progInflight' > progInflight
             => Len(progTimers') = Len(progTimers) - 1
          /\ liveInflight' > liveInflight
             => Len(liveTimers') = Len(liveTimers) - 1]_vars

\* Both loops are in their third cycle, one with its request in flight and
\* the other waiting for its timer.
C18_Witness ==
    /\ progPolls >= 3
    /\ livePolls >= 3
    /\ progInflight = 1
    /\ Len(liveTimers) = 1

\* C19: the wake-lock requests pending and the handles held are one at most
\* together; a request is made only when none is pending and none is held;
\* the stored handle is replaced only after release() was called on it.
C19_WakeLockExclusive ==
    /\ [](wlRequests + Cardinality(held) <= 1)
    /\ [][wlRequests' > wlRequests
          => wakeLock = NoLock /\ wlRequests = 0 /\ held = {}]_vars
    /\ [][(wakeLock # NoLock /\ wakeLock' # wakeLock)
          => relCalls[wakeLock] > 0]_vars


----------------------------------------------------------------------------
(* Further claims about the thumbnail loader.                              *)

\* C21: between callbacks no name is in loadedImages and in loadingImages,
\* and the name of a card with a retry timer pending is in neither.
C21_MembershipExclusive ==
    /\ tl.loadedImages \cap tl.loadingImages = {}
    /\ \A c \in Cards :
         RetryTimers(tl, c) # {} =>
             cardName(c) \notin tl.loadedImages \cup tl.loadingImages

\* After a reinitialize with a load in flight: the card's second load is
\* still at its await while its first has marked the name loaded, and
\* another card is loading.
C21_Witness ==
    /\ tl.loadingImages # {}
    /\ \E load \in BagToSet(tl.loads) : cardName(load.card) \in tl.loadedImages


\* C22: at most one debounce timer is pending; it has the delay
\* mutationDebounce, is the one this.mutationTimeout names, and was set by
\* the last card insertion (so it fires only when no insertion followed it);
\* an insertion seen by a mutation observer leaves exactly that one timer;
\* a callback that inserts no card, among them every callback in which the
\* loader appends or removes an indicator or swaps a source, sets no timer;
\* and a pending timer goes away only by a destroy call or by firing, which
\* runs one scan.
C22_MutationDebounced ==
    /\ [](/\ BagCardinality(tl.debounceTimers) <= 1
          /\ \A t \in BagToSet(tl.debounceTimers) :
               /\ t = DebounceTimerOf(Cardinality(tl.docCards))
               /\ tl.mutationTimeout = t.id)
    /\ [][/\ (tl'.docCards # tl.docCards /\ tl.mutationObservers > 0)
             => tl'.debounceTimers =
                   SetToBag({DebounceTimerOf(Cardinality(tl'.docCards))})
          /\ tl'.docCards = tl.docCards
             => BagCardinality(tl'.debounceTimers) <= BagCardinality(tl.debounceTimers)
          /\ (tl'.docCards = tl.docCards /\ tl'.calls = tl.calls
                /\ tl'.debounceTimers # tl.debounceTimers)
             => TimerScan /\ tl'.debounceTimers = EmptyBag]_vars

\* Two insertions seen by a mutation observer with no scan between them:
\* the first card, which a scan would register, is still untracked, and one
\* timer is pending, set by the second insertion.
C22_Witness ==
    /\ tl.mutationObservers > 0
    /\ tl.calls = 0
    /\ tl.debounceTimers = SetToBag({DebounceTimerOf(2)})
    /\ 1 \in Registrable(tl)
    /\ 1 \notin tl.observedCards


\* C23: in every state, for every observer and every card it observes: the
\* callback for an entry that is intersecting leaves the card's name loaded
\* or loading and the card no longer observed by that observer; the callback
\* for an entry that is not intersecting changes nothing.
C23_IntersectOneShot ==
    \A o \in Observers : \A c \in tl.watching[o] :
        /\ handleIntersection(tl, c, FALSE) = tl
        /\ LET after == handleIntersection(tl, c, TRUE)
           IN  /\ cardName(c) \in after.loadedImages \cup after.loadingImages
               /\ c \notin after.watching[o]


----------------------------------------------------------------------------
(* A further claim about the poll session.                                 *)

\* C24: once atEnd has been called, onProgress is not called again.
C24_NoProgressAfterEnd ==
    [][atEndCalls > 0 => onProgressCalls' = onProgressCalls]_vars

----------------------------------------------------------------------------
(* Further claims about the thumbnail loader, continued.                   *)


\* C26: in every state the loaded count of getStats is at most the tracked
\* count, every loaded identifier is the name of a tracked card, and the
\* success rate is at most 100% and is 0 when no card is tracked.
C26_StatsConsistent ==
    /\ getStats(tl).loadedImages <= getStats(tl).observedCards
    /\ \A n \in tl.loadedImages : \E c \in tl.observedCards : cardName(c) = n
    /\ getStats(tl).successRate <= 1000
    /\ getStats(tl).observedCards = 0 => getStats(tl).successRate = 0


\* The loader has been destroyed and not initialized since.
TornDown(s) == s.instance /\ ~s.isInitialized

\* C27: between a destroy and the next initialize, a step that is not a
\* call of the window API runs no scan, registers no card and starts or
\* finishes no load: neither an empty-scan retry timer, nor a mutation, nor
\* a load in flight makes the loader act.
C27_QuietAfterDestroy ==
    [][(TornDown(tl) /\ TornDown(tl') /\ tl'.calls = tl.calls)
       => /\ ~TimerScan
          /\ tl'.debounceTimers = tl.debounceTimers
          /\ tl'.observedCards = tl.observedCards
          /\ tl'.watching = tl.watching
          /\ tl'.loadedImages = tl.loadedImages
          /\ tl'.loadingImages = tl.loadingImages]_vars


\* C28: while the loader is initialized, every tracked card whose name is
\* in neither loadedImages nor loadingImages (no intersection has started
\* its load) is a target of the loader's current intersection observer.
C28_TrackedObserved ==
    tl.isInitialized
    => \A c \in tl.observedCards :
           cardName(c) \notin tl.loadedImages \cup tl.loadingImages
           => c \in tl.watching[tl.observer]


\* Nothing is pending for card c: no observer has it as a target, none of
\* its loads is in flight and no timer of the load path is set for it.
NothingPending(s, c) ==
    /\ \A o \in Observers : c \notin s.watching[o]
    /\ LoadsOf(s, c) = {}
    /\ \A t \in BagToSet(s.loadTimers) : t.card # c

\* C25: every tracked card that has been reported intersecting ends with
\* its indicator removed and the source of each of its thumbnails restored,
\* or abandoned after maxRetries retries.  Without a call of the window API
\* a tracked card leaves its observer only by an intersecting entry, and
\* with nothing pending for it the card has reached its final state.
C25_IntersectingCardLoaded ==
    \A c \in tl.observedCards :
        (tl.calls = 0 /\ NothingPending(tl, c))
        => /\ ~tl.indicator[c]
           /\ \/ \A i \in Imgs : tl.img[c][i].src # "placeholder"
              \/ tl.retryAttempts[cardName(c)] = maxRetries

====
